---- MODULE Spec2Model ----
(***************************************************************************)
(* State-machine model of the kitties pallet                               *)
(* (src/pallets/kitties/src/lib.rs).                                       *)
(*                                                                         *)
(* Storage items KittiesOwned, Kitties and KittiesCount are the state,     *)
(* together with the free and reserved balances of the KittyCurrency       *)
(* ledger and the frame_system values read by gen_random_value.  Every     *)
(* dispatchable is one action.  For each dispatchable an operator          *)
(* computes the outcome of a call in the current state: the value it       *)
(* returns and the storage it leaves.  Storage writes are applied in the   *)
(* order of the code and an error return keeps the writes made before it:  *)
(* the dispatchables carry no transactional annotation.                    *)
(*                                                                         *)
(* Two further specifications share the module.  CrossoverSpec applies the *)
(* crossover loop of breed_kitty to parents and selectors drawn from every *)
(* code of DnaLen bytes of CrossBits bits.  PoeSpec is the                 *)
(* proof-of-existence pallet (src/pallets/poe/src/lib.rs): its storage     *)
(* map Claims and its three dispatchables.                                 *)
(***************************************************************************)
EXTENDS Integers, Sequences, FiniteSets, TLC

\* ---- bounds of the model ----
DnaLen == 2
ByteBits == 1
MaxKittiesOwned == 3
MaxKittiesCount == 4
KittyPrice == 2
MaxExtrinsicIndex == 0
MaxBlockNumber == 1
MaxSeed == 0
CrossBits == 2
MaxClaimLength == 1

VARIABLES KittiesOwned, Kitties, KittiesCount, free, reserved,
          extrinsic_index, block_number, random, cross, Claims

vars == <<KittiesOwned, Kitties, KittiesCount, free, reserved,
          extrinsic_index, block_number, random, cross, Claims>>

\* T::AccountId: the accounts that sign calls.
Accounts == {1, 2}

\* Genesis free balances: account 1 can reserve the price of every kitty the
\* model can hold, account 2 the price of one kitty only.
InitialFree == <<MaxKittiesCount * KittyPrice + 1, KittyPrice + 1>>

\* One u8 of a KittyDNA, at the model's byte width.
ByteRange == 2 ^ ByteBits
Byte == 0 .. (ByteRange - 1)

\* type KittyDNA = [u8; 16]
KittyDNA == [1 .. DnaLen -> Byte]

NumDna == ByteRange ^ DnaLen

\* Balances a caller may pass to set_price, and to buy_kitty as its bid.
PriceInputs == {KittyPrice + 1}
BidInputs == {0, KittyPrice + 1}

Min(a, b) == IF a <= b THEN a ELSE b

\* ---- KittyCurrency: ReservableCurrency ----
can_reserve(who, value) == value = 0 \/ free[who] >= value

\* reserve fails when the free balance is below value, and otherwise moves
\* value from free to reserved.
reserve_ok(f, who, value) == value = 0 \/ f[who] >= value
reserve_free(f, who, value) == [f EXCEPT ![who] = @ - value]
reserve_reserved(r, who, value) == [r EXCEPT ![who] = @ + value]

\* unreserve moves up to value from reserved back to free.
unreserve_free(f, r, who, value) == [f EXCEPT ![who] = @ + Min(r[who], value)]

\* Mutant: unreserve releases the whole reserved balance.
unreserve_reserved_all(r, who, value) == [r EXCEPT ![who] = 0]

unreserve_reserved(r, who, value) == [r EXCEPT ![who] = @ - Min(r[who], value)]

\* ---- gen_random_value ----
\* extrinsic_index() returns an Option<u32>: <<>> is None, <<i>> is Some(i).
\* Its SCALE encoding is a tag, then the value.
EncodeIndex(e) == IF e = <<>> THEN 0 ELSE 1 + e[1]

\* blake2_128 of the encoded payload, as a fixed mixing function onto the
\* model's identifier space.
Blake2_128(payload) ==
    LET h == (3 * payload[1] + payload[2] + 3 * EncodeIndex(payload[3]) + 2 * payload[4]) % NumDna
    IN [i \in 1 .. DnaLen |-> (h \div (ByteRange ^ (i - 1))) % ByteRange]

gen_random_value(sender) ==
    Blake2_128(<<random, sender, extrinsic_index, block_number>>)

\* ---- bytewise operators of the crossover ----
RECURSIVE BitAnd(_, _, _)
BitAnd(x, y, n) ==
    IF n = 0 THEN 0
    ELSE (x % 2) * (y % 2) + 2 * BitAnd(x \div 2, y \div 2, n - 1)

RECURSIVE BitOr(_, _, _)
BitOr(x, y, n) ==
    IF n = 0 THEN 0
    ELSE (IF (x % 2) + (y % 2) > 0 THEN 1 ELSE 0) + 2 * BitOr(x \div 2, y \div 2, n - 1)

\* !x on a byte of n bits.
BitNot(x, n) == (2 ^ n - 1) - x

\* Mutant: the selector of the second parent not complemented.
crossover_same_mask(a, b, s, n) ==
    [i \in 1 .. DnaLen |-> BitOr(BitAnd(a[i], s[i], n), BitAnd(b[i], s[i], n), n)]

\* Mutant: the second parent not masked.
crossover_unmasked(a, b, s, n) ==
    [i \in 1 .. DnaLen |-> BitOr(BitAnd(a[i], s[i], n), b[i], n)]

\* The crossover loop on bytes of n bits:
\* dna[i] = (kitty_1.dna[i] & selector[i]) | (kitty_2.dna[i] & !selector[i])
crossover(a, b, s, n) ==
    [i \in 1 .. DnaLen |->
        BitOr(BitAnd(a[i], s[i], n), BitAnd(b[i], BitNot(s[i], n), n), n)]

\* The crossover at the byte width of the registry's identifiers.
combine(a, b, s) == crossover(a, b, s, ByteBits)

\* ---- BoundedVec<KittyDNA, MaxKittiesOwned> ----
try_push_ok(list) == Len(list) < MaxKittiesOwned

\* iter().position(|&id| id == dna): 0 when absent.
position(list, dna) ==
    IF \E i \in 1 .. Len(list) : list[i] = dna
    THEN CHOOSE i \in 1 .. Len(list) : list[i] = dna /\ \A j \in 1 .. (i - 1) : list[j] # dna
    ELSE 0

\* Mutant: pop() in place of swap_remove(ind).
swap_remove_pop(list, ind) ==
    [i \in 1 .. (Len(list) - 1) |-> list[i]]

\* Mutant: remove(ind), which keeps the order of the remaining elements.
swap_remove_shift(list, ind) ==
    [i \in 1 .. (Len(list) - 1) |-> IF i < ind THEN list[i] ELSE list[i + 1]]

\* swap_remove(ind): the last element takes the place of the removed one.
swap_remove(list, ind) ==
    [i \in 1 .. (Len(list) - 1) |-> IF i = ind THEN list[Len(list)] ELSE list[i]]

\* Mutant: an insert that drops every other key of the map.
insert_only(map, key, value) ==
    [k \in {key} |-> value]

\* StorageMap::insert
insert(map, key, value) ==
    [k \in (DOMAIN map) \cup {key} |-> IF k = key THEN value ELSE map[k]]

\* ---- outcome of a call: the DispatchResult and the storage after it ----
NoDna == <<>>

Outcome(result, dna, owned, kitties, count, f, r) ==
    [result |-> result, dna |-> dna, KittiesOwned |-> owned, Kitties |-> kitties,
     KittiesCount |-> count, free |-> f, reserved |-> r]

\* An error returned before any write.
Fail(result, dna) == Outcome(result, dna, KittiesOwned, Kitties, KittiesCount, free, reserved)

\* The storage a call leaves becomes the next state.
Commit(out) ==
    /\ KittiesOwned' = out.KittiesOwned
    /\ Kitties' = out.Kitties
    /\ KittiesCount' = out.KittiesCount
    /\ free' = out.free
    /\ reserved' = out.reserved

\* The inputs and the result of one run of the crossover loop; dna is NoDna
\* until the loop has run.
NoCross == [kitty_1 |-> NoDna, kitty_2 |-> NoDna, selector |-> NoDna, dna |-> NoDna]

\* Genesis: empty storage, the genesis balances, block 0.
Genesis ==
    /\ KittiesOwned = [a \in Accounts |-> <<>>]
    /\ Kitties = <<>>
    /\ KittiesCount = 0
    /\ free = [a \in Accounts |-> InitialFree[a]]
    /\ reserved = [a \in Accounts |-> 0]
    /\ extrinsic_index = <<>>
    /\ block_number = 0
    /\ random = 0
    /\ Claims = <<>>

Init ==
    /\ Genesis
    /\ cross = NoCross

\* ---- environment: frame_system and the randomness source ----
set_extrinsic_index(i) ==
    /\ extrinsic_index' = <<i>>
    /\ UNCHANGED <<KittiesOwned, Kitties, KittiesCount, free, reserved, block_number, random,
                   cross, Claims>>

next_block(seed) ==
    /\ block_number < MaxBlockNumber
    /\ block_number' = block_number + 1
    /\ random' = seed
    /\ extrinsic_index' = <<>>
    /\ UNCHANGED <<KittiesOwned, Kitties, KittiesCount, free, reserved, cross, Claims>>

\* ---- create_kitty ----
\* Mutant: the comparison of count with MaxKittiesCount left out.
create_kitty_check_no_bound(owner, dna) ==
    IF ~can_reserve(owner, KittyPrice) THEN "NotEnoughBalance"
    ELSE IF dna \in DOMAIN Kitties THEN "SameKitties"
    ELSE IF ~try_push_ok(KittiesOwned[owner]) THEN "ExceedMaxKittiesOwned"
    ELSE "Ok"

\* Mutant: the contains_key test of the generated dna left out.
create_kitty_check_no_contains(owner, dna) ==
    IF ~can_reserve(owner, KittyPrice) THEN "NotEnoughBalance"
    ELSE IF ~(KittiesCount + 1 <= MaxKittiesCount) THEN "KittiesCountOverFlow"
    ELSE IF ~try_push_ok(KittiesOwned[owner]) THEN "ExceedMaxKittiesOwned"
    ELSE "Ok"

\* Mutant: the can_reserve test left out, so that reserve is the first test
\* of the balance.
create_kitty_check_no_can_reserve(owner, dna) ==
    IF ~(KittiesCount + 1 <= MaxKittiesCount) THEN "KittiesCountOverFlow"
    ELSE IF dna \in DOMAIN Kitties THEN "SameKitties"
    ELSE IF ~try_push_ok(KittiesOwned[owner]) THEN "ExceedMaxKittiesOwned"
    ELSE "Ok"

\* The checks made before the first storage write, in the order of the code.
\* checked_add(1) and the comparison with MaxKittiesCount return the same
\* error, and MaxKittiesCount is a u32, so they are one test here.
create_kitty_check(owner, dna) ==
    IF ~can_reserve(owner, KittyPrice) THEN "NotEnoughBalance"
    ELSE IF ~(KittiesCount + 1 <= MaxKittiesCount) THEN "KittiesCountOverFlow"
    ELSE IF dna \in DOMAIN Kitties THEN "SameKitties"
    ELSE IF ~try_push_ok(KittiesOwned[owner]) THEN "ExceedMaxKittiesOwned"
    ELSE "Ok"

\* Mutant: KittyCurrency::reserve left out.
mint_writes_no_reserve(owner, dna) ==
    LET owned == [KittiesOwned EXCEPT ![owner] = Append(@, dna)]
        kitty == [dna |-> dna, price |-> KittyPrice, owner |-> owner]
    IN Outcome("Ok", dna, owned, insert(Kitties, dna, kitty), KittiesCount + 1,
               free, reserved)

\* Mutant: KittiesCount::put(count) left out.
mint_writes_no_put(owner, dna) ==
    LET owned == [KittiesOwned EXCEPT ![owner] = Append(@, dna)]
        kitty == [dna |-> dna, price |-> KittyPrice, owner |-> owner]
    IN IF ~reserve_ok(free, owner, KittyPrice)
       THEN Outcome("NotEnoughBalance", dna, owned, Kitties, KittiesCount, free, reserved)
       ELSE Outcome("Ok", dna, owned, insert(Kitties, dna, kitty), KittiesCount,
                    reserve_free(free, owner, KittyPrice),
                    reserve_reserved(reserved, owner, KittyPrice))

\* The writes shared by create_kitty and breed_kitty: try_append, reserve,
\* insert, put.  A failing reserve returns after the append was written.
mint_writes(owner, dna) ==
    LET owned == [KittiesOwned EXCEPT ![owner] = Append(@, dna)]
        kitty == [dna |-> dna, price |-> KittyPrice, owner |-> owner]
    IN IF ~reserve_ok(free, owner, KittyPrice)
       THEN Outcome("NotEnoughBalance", dna, owned, Kitties, KittiesCount, free, reserved)
       ELSE Outcome("Ok", dna, owned, insert(Kitties, dna, kitty), KittiesCount + 1,
                    reserve_free(free, owner, KittyPrice),
                    reserve_reserved(reserved, owner, KittyPrice))

create_kitty_call(owner) ==
    LET dna == gen_random_value(owner)
        check == create_kitty_check(owner, dna)
    IN IF check # "Ok" THEN Fail(check, dna) ELSE mint_writes(owner, dna)

create_kitty(owner) ==
    /\ Commit(create_kitty_call(owner))
    /\ UNCHANGED <<extrinsic_index, block_number, random, cross, Claims>>

\* ---- breed_kitty ----
\* Mutant: the contains_key test of the child's dna left out.
breed_kitty_check_no_dup(owner, parent_1, parent_2) ==
    IF ~(KittiesCount + 1 <= MaxKittiesCount) THEN "KittiesCountOverFlow"
    ELSE IF parent_1 \notin DOMAIN Kitties THEN "KittyNotExists"
    ELSE IF parent_2 \notin DOMAIN Kitties THEN "KittyNotExists"
    ELSE IF Kitties[parent_1].owner # owner THEN "NotOwner"
    ELSE IF Kitties[parent_2].owner # owner THEN "NotOwner"
    ELSE IF Kitties[parent_1].dna = Kitties[parent_2].dna THEN "SameKitties"
    ELSE IF ~can_reserve(owner, KittyPrice) THEN "NotEnoughBalance"
    ELSE IF ~try_push_ok(KittiesOwned[owner]) THEN "ExceedMaxKittiesOwned"
    ELSE "Ok"

\* Mutant: the test that the two parents differ left out.
breed_kitty_check_no_same(owner, parent_1, parent_2) ==
    IF ~(KittiesCount + 1 <= MaxKittiesCount) THEN "KittiesCountOverFlow"
    ELSE IF parent_1 \notin DOMAIN Kitties THEN "KittyNotExists"
    ELSE IF parent_2 \notin DOMAIN Kitties THEN "KittyNotExists"
    ELSE IF Kitties[parent_1].owner # owner THEN "NotOwner"
    ELSE IF Kitties[parent_2].owner # owner THEN "NotOwner"
    ELSE IF ~can_reserve(owner, KittyPrice) THEN "NotEnoughBalance"
    ELSE IF combine(Kitties[parent_1].dna, Kitties[parent_2].dna, gen_random_value(owner))
                \in DOMAIN Kitties THEN "SameKitties"
    ELSE IF ~try_push_ok(KittiesOwned[owner]) THEN "ExceedMaxKittiesOwned"
    ELSE "Ok"

\* Mutant: the owner test of the second parent left out.
breed_kitty_check_one_owner(owner, parent_1, parent_2) ==
    IF ~(KittiesCount + 1 <= MaxKittiesCount) THEN "KittiesCountOverFlow"
    ELSE IF parent_1 \notin DOMAIN Kitties THEN "KittyNotExists"
    ELSE IF parent_2 \notin DOMAIN Kitties THEN "KittyNotExists"
    ELSE IF Kitties[parent_1].owner # owner THEN "NotOwner"
    ELSE IF Kitties[parent_1].dna = Kitties[parent_2].dna THEN "SameKitties"
    ELSE IF ~can_reserve(owner, KittyPrice) THEN "NotEnoughBalance"
    ELSE IF combine(Kitties[parent_1].dna, Kitties[parent_2].dna, gen_random_value(owner))
                \in DOMAIN Kitties THEN "SameKitties"
    ELSE IF ~try_push_ok(KittiesOwned[owner]) THEN "ExceedMaxKittiesOwned"
    ELSE "Ok"

\* The checks made before the first write, in the order of the code: the
\* counter is tested first.
breed_kitty_check(owner, parent_1, parent_2) ==
    IF ~(KittiesCount + 1 <= MaxKittiesCount) THEN "KittiesCountOverFlow"
    ELSE IF parent_1 \notin DOMAIN Kitties THEN "KittyNotExists"
    ELSE IF parent_2 \notin DOMAIN Kitties THEN "KittyNotExists"
    ELSE IF Kitties[parent_1].owner # owner THEN "NotOwner"
    ELSE IF Kitties[parent_2].owner # owner THEN "NotOwner"
    ELSE IF Kitties[parent_1].dna = Kitties[parent_2].dna THEN "SameKitties"
    ELSE IF ~can_reserve(owner, KittyPrice) THEN "NotEnoughBalance"
    ELSE IF combine(Kitties[parent_1].dna, Kitties[parent_2].dna, gen_random_value(owner))
                \in DOMAIN Kitties THEN "SameKitties"
    ELSE IF ~try_push_ok(KittiesOwned[owner]) THEN "ExceedMaxKittiesOwned"
    ELSE "Ok"

breed_kitty_call(owner, parent_1, parent_2) ==
    LET check == breed_kitty_check(owner, parent_1, parent_2)
    IN IF check # "Ok" THEN Fail(check, NoDna)
       ELSE mint_writes(owner, combine(Kitties[parent_1].dna, Kitties[parent_2].dna,
                                       gen_random_value(owner)))

breed_kitty(owner, parent_1, parent_2) ==
    /\ Commit(breed_kitty_call(owner, parent_1, parent_2))
    /\ UNCHANGED <<extrinsic_index, block_number, random, cross, Claims>>

\* ---- transfer_kitty ----
\* Mutant: the test that the caller owns the kitty left out.
transfer_kitty_check_no_owner(from, to, dna) ==
    IF from = to THEN "TransferToSelf"
    ELSE IF dna \notin DOMAIN Kitties THEN "KittyNotExists"
    ELSE IF ~can_reserve(to, Kitties[dna].price) THEN "NotEnoughBalance"
    ELSE IF ~try_push_ok(KittiesOwned[to]) THEN "ExceedMaxKittiesOwned"
    ELSE "Ok"

\* Mutant: to_owned.try_push replaced by an unchecked push.
transfer_kitty_check_no_capacity(from, to, dna) ==
    IF from = to THEN "TransferToSelf"
    ELSE IF dna \notin DOMAIN Kitties THEN "KittyNotExists"
    ELSE IF Kitties[dna].owner # from THEN "NotOwner"
    ELSE IF ~can_reserve(to, Kitties[dna].price) THEN "NotEnoughBalance"
    ELSE "Ok"

\* The checks made before the first write; to_owned.try_push acts on a copy.
transfer_kitty_check(from, to, dna) ==
    IF from = to THEN "TransferToSelf"
    ELSE IF dna \notin DOMAIN Kitties THEN "KittyNotExists"
    ELSE IF Kitties[dna].owner # from THEN "NotOwner"
    ELSE IF ~can_reserve(to, Kitties[dna].price) THEN "NotEnoughBalance"
    ELSE IF ~try_push_ok(KittiesOwned[to]) THEN "ExceedMaxKittiesOwned"
    ELSE "Ok"

\* Mutant: KittyCurrency::unreserve of the sender left out.
transfer_kitty_writes_no_unreserve(from, to, dna) ==
    LET kitty == Kitties[dna]
        to_owned == Append(KittiesOwned[to], dna)
        ind == position(KittiesOwned[from], dna)
        from_owned == swap_remove(KittiesOwned[from], ind)
        free_1 == reserve_free(free, to, kitty.price)
        reserved_1 == reserve_reserved(reserved, to, kitty.price)
    IN IF ~reserve_ok(free, to, kitty.price) THEN Fail("NotEnoughBalance", dna)
       ELSE IF ind = 0
       THEN Outcome("KittyNotExists", dna, KittiesOwned, Kitties, KittiesCount,
                    free_1, reserved_1)
       ELSE Outcome("Ok", dna,
                    [KittiesOwned EXCEPT ![to] = to_owned, ![from] = from_owned],
                    insert(Kitties, dna, [kitty EXCEPT !.owner = to]),
                    KittiesCount, free_1, reserved_1)

\* reserve, position / swap_remove, unreserve and the three inserts.  The
\* error return for an id missing from the sender's list comes after the
\* reserve was written.
transfer_kitty_writes(from, to, dna) ==
    LET kitty == Kitties[dna]
        to_owned == Append(KittiesOwned[to], dna)
        ind == position(KittiesOwned[from], dna)
        from_owned == swap_remove(KittiesOwned[from], ind)
        free_1 == reserve_free(free, to, kitty.price)
        reserved_1 == reserve_reserved(reserved, to, kitty.price)
    IN IF ~reserve_ok(free, to, kitty.price) THEN Fail("NotEnoughBalance", dna)
       ELSE IF ind = 0
       THEN Outcome("KittyNotExists", dna, KittiesOwned, Kitties, KittiesCount,
                    free_1, reserved_1)
       ELSE Outcome("Ok", dna,
                    [KittiesOwned EXCEPT ![to] = to_owned, ![from] = from_owned],
                    insert(Kitties, dna, [kitty EXCEPT !.owner = to]),
                    KittiesCount,
                    unreserve_free(free_1, reserved_1, from, kitty.price),
                    unreserve_reserved(reserved_1, from, kitty.price))

transfer_kitty_call(from, to, dna) ==
    LET check == transfer_kitty_check(from, to, dna)
    IN IF check # "Ok" THEN Fail(check, dna) ELSE transfer_kitty_writes(from, to, dna)

transfer_kitty(from, to, dna) ==
    /\ Commit(transfer_kitty_call(from, to, dna))
    /\ UNCHANGED <<extrinsic_index, block_number, random, cross, Claims>>

\* ---- set_price ----
\* Mutant: the test that the caller owns the kitty left out.
set_price_call_no_owner(sender, kitty_id, new_price) ==
    IF kitty_id \notin DOMAIN Kitties THEN Fail("KittyNotExists", kitty_id)
    ELSE Outcome("Ok", kitty_id, KittiesOwned,
                 insert(Kitties, kitty_id, [Kitties[kitty_id] EXCEPT !.price = new_price]),
                 KittiesCount, free, reserved)

set_price_call(sender, kitty_id, new_price) ==
    IF kitty_id \notin DOMAIN Kitties THEN Fail("KittyNotExists", kitty_id)
    ELSE IF Kitties[kitty_id].owner # sender THEN Fail("NotOwner", kitty_id)
    ELSE Outcome("Ok", kitty_id, KittiesOwned,
                 insert(Kitties, kitty_id, [Kitties[kitty_id] EXCEPT !.price = new_price]),
                 KittiesCount, free, reserved)

set_price(sender, kitty_id, new_price) ==
    /\ Commit(set_price_call(sender, kitty_id, new_price))
    /\ UNCHANGED <<extrinsic_index, block_number, random, cross, Claims>>

\* ---- buy_kitty ----
\* Mutant: buyer_owned.try_push replaced by an unchecked push.
do_buy_kitty_check_unchecked_push(kitty_id, buyer, bid_price) ==
    IF kitty_id \notin DOMAIN Kitties THEN "KittyNotExists"
    ELSE IF Kitties[kitty_id].owner = buyer THEN "TransferToSelf"
    ELSE IF position(KittiesOwned[Kitties[kitty_id].owner], kitty_id) = 0 THEN "KittyNotExists"
    ELSE "Ok"

\* Mutant: the test that the buyer is not the seller left out.
do_buy_kitty_check_no_self(kitty_id, buyer, bid_price) ==
    IF kitty_id \notin DOMAIN Kitties THEN "KittyNotExists"
    ELSE IF position(KittiesOwned[Kitties[kitty_id].owner], kitty_id) = 0 THEN "KittyNotExists"
    ELSE IF ~try_push_ok(KittiesOwned[buyer]) THEN "ExceedMaxKittiesOwned"
    ELSE "Ok"

\* Mutant: the commented-out test of the bid against the price put back.
do_buy_kitty_check_bid(kitty_id, buyer, bid_price) ==
    IF kitty_id \notin DOMAIN Kitties THEN "KittyNotExists"
    ELSE IF Kitties[kitty_id].owner = buyer THEN "TransferToSelf"
    ELSE IF position(KittiesOwned[Kitties[kitty_id].owner], kitty_id) = 0 THEN "KittyNotExists"
    ELSE IF ~try_push_ok(KittiesOwned[buyer]) THEN "ExceedMaxKittiesOwned"
    ELSE IF bid_price < Kitties[kitty_id].price THEN "BidPriceTooLow"
    ELSE "Ok"

\* The checks of do_buy_kitty; every one precedes the first write.
do_buy_kitty_check(kitty_id, buyer, bid_price) ==
    IF kitty_id \notin DOMAIN Kitties THEN "KittyNotExists"
    ELSE IF Kitties[kitty_id].owner = buyer THEN "TransferToSelf"
    ELSE IF position(KittiesOwned[Kitties[kitty_id].owner], kitty_id) = 0 THEN "KittyNotExists"
    ELSE IF ~try_push_ok(KittiesOwned[buyer]) THEN "ExceedMaxKittiesOwned"
    ELSE "Ok"

do_buy_kitty(kitty_id, buyer, bid_price) ==
    LET check == do_buy_kitty_check(kitty_id, buyer, bid_price)
    IN IF check # "Ok" THEN Fail(check, kitty_id)
       ELSE LET kitty == Kitties[kitty_id]
                seller == kitty.owner
                seller_owned == swap_remove(KittiesOwned[seller],
                                            position(KittiesOwned[seller], kitty_id))
                buyer_owned == Append(KittiesOwned[buyer], kitty_id)
            IN Outcome("Ok", kitty_id,
                       [KittiesOwned EXCEPT ![buyer] = buyer_owned, ![seller] = seller_owned],
                       insert(Kitties, kitty_id, [kitty EXCEPT !.owner = buyer]),
                       KittiesCount, free, reserved)

buy_kitty(buyer, kitty_id, bid_price) ==
    /\ Commit(do_buy_kitty(kitty_id, buyer, bid_price))
    /\ UNCHANGED <<extrinsic_index, block_number, random, cross, Claims>>

Next ==
    \/ \E i \in 0 .. MaxExtrinsicIndex : set_extrinsic_index(i)
    \/ \E seed \in 0 .. MaxSeed : next_block(seed)
    \/ \E owner \in Accounts : create_kitty(owner)
    \/ \E owner \in Accounts, parent_1, parent_2 \in KittyDNA :
          breed_kitty(owner, parent_1, parent_2)
    \/ \E from, to \in Accounts, dna \in KittyDNA : transfer_kitty(from, to, dna)
    \/ \E sender \in Accounts, kitty_id \in KittyDNA, new_price \in PriceInputs :
          set_price(sender, kitty_id, new_price)
    \/ \E buyer \in Accounts, kitty_id \in KittyDNA, bid_price \in BidInputs :
          buy_kitty(buyer, kitty_id, bid_price)

Spec == Init /\ [][Next]_vars

\* ---- the pallet without set_price and buy_kitty ----
MintTransferNext ==
    \/ \E i \in 0 .. MaxExtrinsicIndex : set_extrinsic_index(i)
    \/ \E seed \in 0 .. MaxSeed : next_block(seed)
    \/ \E owner \in Accounts : create_kitty(owner)
    \/ \E owner \in Accounts, parent_1, parent_2 \in KittyDNA :
          breed_kitty(owner, parent_1, parent_2)
    \/ \E from, to \in Accounts, dna \in KittyDNA : transfer_kitty(from, to, dna)

MintTransferSpec == Init /\ [][MintTransferNext]_vars

\* ---- the crossover of breed_kitty on its own ----
\* Parents and selectors: every code of DnaLen bytes of CrossBits bits.
CrossCode == [1 .. DnaLen -> 0 .. (2 ^ CrossBits - 1)]

CrossoverInit ==
    /\ Genesis
    /\ cross \in [kitty_1 : CrossCode, kitty_2 : CrossCode, selector : CrossCode,
                  dna : {NoDna}]

\* for i in 0..dna.len() { dna[i] = ... }
breed_crossover ==
    /\ cross.dna = NoDna
    /\ cross' = [cross EXCEPT
                    !.dna = crossover(cross.kitty_1, cross.kitty_2, cross.selector, CrossBits)]
    /\ UNCHANGED <<KittiesOwned, Kitties, KittiesCount, free, reserved,
                   extrinsic_index, block_number, random, Claims>>

CrossoverNext == breed_crossover

CrossoverSpec == CrossoverInit /\ [][CrossoverNext]_vars

\* ---- proof-of-existence pallet ----
\* The bytes of a claim, and the claims a caller may pass: every Vec<u8> up
\* to one byte longer than MaxClaimLength.
ClaimByte == {0, 1}
ClaimInputs == UNION {[1 .. n -> ClaimByte] : n \in 0 .. (MaxClaimLength + 1)}

\* BoundedVec::<u8, T::MaxClaimLength>::try_from(claim)
try_from_ok(claim) == Len(claim) <= MaxClaimLength

\* StorageMap::remove
remove(map, key) == [k \in (DOMAIN map) \ {key} |-> map[k]]

\* The DispatchResult of a call and the Claims map it leaves.
PoeOutcome(result, claims) == [result |-> result, Claims |-> claims]

create_claim_call(sender, claim) ==
    IF ~try_from_ok(claim) THEN PoeOutcome("ClaimTooLong", Claims)
    ELSE IF claim \in DOMAIN Claims THEN PoeOutcome("ClaimAlreadyExist", Claims)
    ELSE PoeOutcome("Ok", insert(Claims, claim, <<sender, block_number>>))

create_claim(sender, claim) ==
    /\ Claims' = create_claim_call(sender, claim).Claims
    /\ UNCHANGED <<KittiesOwned, Kitties, KittiesCount, free, reserved,
                   extrinsic_index, block_number, random, cross>>

\* Mutant: the test that the sender owns the claim left out.
revoke_claim_call_no_owner(sender, claim) ==
    IF ~try_from_ok(claim) THEN PoeOutcome("ClaimTooLong", Claims)
    ELSE IF claim \notin DOMAIN Claims THEN PoeOutcome("ClaimNotExist", Claims)
    ELSE PoeOutcome("Ok", remove(Claims, claim))

revoke_claim_call(sender, claim) ==
    IF ~try_from_ok(claim) THEN PoeOutcome("ClaimTooLong", Claims)
    ELSE IF claim \notin DOMAIN Claims THEN PoeOutcome("ClaimNotExist", Claims)
    ELSE IF Claims[claim][1] # sender THEN PoeOutcome("NotClaimOwner", Claims)
    ELSE PoeOutcome("Ok", remove(Claims, claim))

revoke_claim(sender, claim) ==
    /\ Claims' = revoke_claim_call(sender, claim).Claims
    /\ UNCHANGED <<KittiesOwned, Kitties, KittiesCount, free, reserved,
                   extrinsic_index, block_number, random, cross>>

transfer_claim_call(sender, claim, dest) ==
    IF ~try_from_ok(claim) THEN PoeOutcome("ClaimTooLong", Claims)
    ELSE IF claim \notin DOMAIN Claims THEN PoeOutcome("ClaimNotExist", Claims)
    ELSE IF Claims[claim][1] # sender THEN PoeOutcome("NotClaimOwner", Claims)
    ELSE PoeOutcome("Ok", insert(Claims, claim, <<dest, block_number>>))

transfer_claim(sender, claim, dest) ==
    /\ Claims' = transfer_claim_call(sender, claim, dest).Claims
    /\ UNCHANGED <<KittiesOwned, Kitties, KittiesCount, free, reserved,
                   extrinsic_index, block_number, random, cross>>

PoeNext ==
    \/ \E seed \in 0 .. MaxSeed : next_block(seed)
    \/ \E sender \in Accounts, claim \in ClaimInputs : create_claim(sender, claim)
    \/ \E sender \in Accounts, claim \in ClaimInputs : revoke_claim(sender, claim)
    \/ \E sender, dest \in Accounts, claim \in ClaimInputs :
          transfer_claim(sender, claim, dest)

PoeSpec == Init /\ [][PoeNext]_vars

\* ---- properties ----

\* C1: the ownership index and the registry agree: every id in
\* KittiesOwned[a] has a Kitties record whose owner is a, and the id of every
\* record appears exactly once in its owner's list and in no other list.
IndexAgreesWithRegistry ==
    /\ \A a \in Accounts : \A i \in 1 .. Len(KittiesOwned[a]) :
          /\ KittiesOwned[a][i] \in DOMAIN Kitties
          /\ Kitties[KittiesOwned[a][i]].owner = a
    /\ \A d \in DOMAIN Kitties : \A a \in Accounts :
          Cardinality({i \in 1 .. Len(KittiesOwned[a]) : KittiesOwned[a][i] = d})
              = IF a = Kitties[d].owner THEN 1 ELSE 0

\* A state after sales: account 2 holds two kitties it never reserved for,
\* taken out of the list of account 1, which still holds two.
IndexAgreesWitness ==
    /\ Len(KittiesOwned[2]) >= 2
    /\ reserved[2] = 0
    /\ Len(KittiesOwned[1]) >= 2

\* C2: for every account, its reserved balance equals the sum of price over
\* the assets it currently owns.
ReservationConsistency ==
    LET RECURSIVE SumPrices(_)
        SumPrices(list) ==
            IF list = <<>> THEN 0
            ELSE Kitties[Head(list)].price + SumPrices(Tail(list))
    IN \A a \in Accounts : reserved[a] = SumPrices(KittiesOwned[a])

\* C3: KittiesCount equals the number of records in Kitties and never
\* exceeds MaxKittiesCount.
CountMatchesRegistry ==
    /\ KittiesCount = Cardinality(DOMAIN Kitties)
    /\ KittiesCount <= MaxKittiesCount

\* The registry holds MaxKittiesCount records.
CountMatchesWitness ==
    /\ KittiesCount = MaxKittiesCount
    /\ Cardinality(DOMAIN Kitties) = MaxKittiesCount

\* C4: no ownership list is longer than MaxKittiesOwned.
OwnedWithinBound ==
    \A a \in Accounts : Len(KittiesOwned[a]) <= MaxKittiesOwned

\* A full list meets a call that would add to it: account 2, which can pay
\* for one kitty only, holds MaxKittiesOwned and another kitty is on sale.
OwnedWithinBoundWitness ==
    /\ Len(KittiesOwned[2]) = MaxKittiesOwned
    /\ \E d \in DOMAIN Kitties : do_buy_kitty(d, 2, KittyPrice + 1).result = "ExceedMaxKittiesOwned"

\* C5: buy_kitty succeeds only if bid_price meets or exceeds the asset's
\* price (a lower bid fails with BidPriceTooLow and the owner stays), and on
\* success the price moves from the buyer's balance to the seller's.
BuyEnforcesPriceAndPayment ==
    [][\A buyer \in Accounts, kitty_id \in DOMAIN Kitties, bid_price \in BidInputs :
          buy_kitty(buyer, kitty_id, bid_price) =>
              LET result == do_buy_kitty(kitty_id, buyer, bid_price).result
                  seller == Kitties[kitty_id].owner
                  price == Kitties[kitty_id].price
              IN /\ bid_price < price =>
                       /\ result = "BidPriceTooLow"
                       /\ Kitties'[kitty_id].owner = seller
                 /\ result = "Ok" =>
                       /\ bid_price >= price
                       /\ free'[buyer] + reserved'[buyer]
                              = free[buyer] + reserved[buyer] - price
                       /\ free'[seller] + reserved'[seller]
                              = free[seller] + reserved[seller] + price]_vars

\* C6: a transfer_kitty call that returns an error leaves every ownership
\* list, the registry and every reserved balance as they were.
TransferFailureIsNoOp ==
    \A from, to \in Accounts, dna \in KittyDNA :
        LET out == transfer_kitty_call(from, to, dna)
        IN out.result # "Ok" =>
              /\ out.KittiesOwned = KittiesOwned
              /\ out.Kitties = Kitties
              /\ out.reserved = reserved

\* One state in which a transfer fails on the recipient's full list and
\* another fails on the recipient's balance.
TransferFailureWitness ==
    /\ \E from, to \in Accounts, dna \in KittyDNA :
          transfer_kitty_call(from, to, dna).result = "ExceedMaxKittiesOwned"
    /\ \E from, to \in Accounts, dna \in KittyDNA :
          transfer_kitty_call(from, to, dna).result = "NotEnoughBalance"

MintedIdIsFresh ==
    LET Fresh(out, owner) ==
            out.result = "Ok" =>
                /\ out.dna \notin DOMAIN Kitties
                /\ out.dna \in DOMAIN out.Kitties
                /\ out.Kitties[out.dna].owner = owner
                /\ \A d \in DOMAIN Kitties :
                      d \in DOMAIN out.Kitties /\ out.Kitties[d] = Kitties[d]
    IN /\ \A owner \in Accounts : Fresh(create_kitty_call(owner), owner)
       /\ \A owner \in Accounts, parent_1, parent_2 \in KittyDNA :
             Fresh(breed_kitty_call(owner, parent_1, parent_2), owner)

\* A breed succeeds and a create succeeds, with records already stored.
MintedIdIsFreshWitness ==
    /\ \E owner \in Accounts, parent_1, parent_2 \in KittyDNA :
          breed_kitty_call(owner, parent_1, parent_2).result = "Ok"
    /\ \E owner \in Accounts : create_kitty_call(owner).result = "Ok"

\* C9: a successful create_kitty by an account adds one record owned by it
\* at the unit price, appends the id to its list, adds the unit price to its
\* reserved balance and one to the counter; no other list, reserved balance
\* or record changes.
CreateEffects ==
    \A owner \in Accounts :
        LET out == create_kitty_call(owner)
        IN out.result = "Ok" =>
              /\ DOMAIN out.Kitties = (DOMAIN Kitties) \cup {out.dna}
              /\ out.dna \notin DOMAIN Kitties
              /\ out.Kitties[out.dna].owner = owner
              /\ out.Kitties[out.dna].price = KittyPrice
              /\ \A d \in DOMAIN Kitties : out.Kitties[d] = Kitties[d]
              /\ out.KittiesOwned[owner] = Append(KittiesOwned[owner], out.dna)
              /\ out.reserved[owner] = reserved[owner] + KittyPrice
              /\ out.KittiesCount = KittiesCount + 1
              /\ \A a \in Accounts \ {owner} :
                    /\ out.KittiesOwned[a] = KittiesOwned[a]
                    /\ out.reserved[a] = reserved[a]

\* A create succeeds while the other account holds kitties and a reserve.
CreateEffectsWitness ==
    \E owner \in Accounts :
        /\ create_kitty_call(owner).result = "Ok"
        /\ \E a \in Accounts \ {owner} : Len(KittiesOwned[a]) >= 1 /\ reserved[a] > 0

\* C10 as claimed: create_kitty with the counter at MaxKittiesCount fails
\* with KittiesCountOverFlow and changes nothing.
CreateAtCapacityOverflows ==
    \A owner \in Accounts :
        LET out == create_kitty_call(owner)
        IN KittiesCount = MaxKittiesCount =>
              /\ out.result = "KittiesCountOverFlow"
              /\ out.KittiesCount = KittiesCount
              /\ out.Kitties = Kitties
              /\ out.KittiesOwned = KittiesOwned
              /\ out.reserved = reserved

\* C10 as amended: the call fails and changes nothing; the error is
\* KittiesCountOverFlow when the caller can reserve the unit price and
\* NotEnoughBalance when it cannot.
CreateAtCapacityFails ==
    \A owner \in Accounts :
        LET out == create_kitty_call(owner)
        IN KittiesCount = MaxKittiesCount =>
              /\ out.result = IF can_reserve(owner, KittyPrice)
                              THEN "KittiesCountOverFlow" ELSE "NotEnoughBalance"
              /\ out.KittiesCount = KittiesCount
              /\ out.Kitties = Kitties
              /\ out.KittiesOwned = KittiesOwned
              /\ out.reserved = reserved

\* The counter is at MaxKittiesCount, one account can reserve the unit price
\* and another cannot.
CreateAtCapacityWitness ==
    /\ KittiesCount = MaxKittiesCount
    /\ \E owner \in Accounts : create_kitty_call(owner).result = "KittiesCountOverFlow"
    /\ \E owner \in Accounts : create_kitty_call(owner).result = "NotEnoughBalance"

TransferToFullIsExceedMax ==
    \A from, to \in Accounts : \A dna \in DOMAIN Kitties :
        (from # to /\ Kitties[dna].owner = from
                   /\ Len(KittiesOwned[to]) = MaxKittiesOwned) =>
            LET out == transfer_kitty_call(from, to, dna)
            IN /\ out.result = "ExceedMaxKittiesOwned"
               /\ out.Kitties[dna].owner = from
               /\ out.KittiesOwned[from] = KittiesOwned[from]
               /\ out.KittiesOwned[to] = KittiesOwned[to]

\* C13 amended: transfer_kitty by the kitty's owner to a different account
\* whose list already holds MaxKittiesOwned kitties fails, and the record's
\* owner and both lists are unchanged; the error is ExceedMaxKittiesOwned
\* when the recipient can reserve the kitty's price and NotEnoughBalance when
\* it cannot.
TransferToFullFails ==
    \A from, to \in Accounts : \A dna \in DOMAIN Kitties :
        (from # to /\ Kitties[dna].owner = from
                   /\ Len(KittiesOwned[to]) = MaxKittiesOwned) =>
            LET out == transfer_kitty_call(from, to, dna)
            IN /\ out.result = IF can_reserve(to, Kitties[dna].price)
                               THEN "ExceedMaxKittiesOwned" ELSE "NotEnoughBalance"
               /\ out.Kitties[dna].owner = from
               /\ out.KittiesOwned[from] = KittiesOwned[from]
               /\ out.KittiesOwned[to] = KittiesOwned[to]

\* The owner transfers to an account with a full list that can reserve the
\* price, and the call returns ExceedMaxKittiesOwned.
TransferToFullWitness ==
    \E from, to \in Accounts : \E dna \in DOMAIN Kitties :
        /\ from # to
        /\ Kitties[dna].owner = from
        /\ Len(KittiesOwned[to]) = MaxKittiesOwned
        /\ can_reserve(to, Kitties[dna].price)
        /\ transfer_kitty_call(from, to, dna).result = "ExceedMaxKittiesOwned"

\* C14: set_price succeeds only for the kitty's current owner and then
\* changes the record's price and nothing else (owner, dna, every other
\* record, every list, the counter and every balance are unchanged); a call
\* by another account fails with NotOwner and a call on an absent id fails
\* with KittyNotExists, both without any change.
SetPriceEffects ==
    \A sender \in Accounts : \A kitty_id \in KittyDNA : \A new_price \in 0 .. (KittyPrice + 1) :
        LET out == set_price_call(sender, kitty_id, new_price)
            same == /\ out.KittiesOwned = KittiesOwned
                    /\ out.KittiesCount = KittiesCount
                    /\ out.free = free
                    /\ out.reserved = reserved
        IN IF kitty_id \notin DOMAIN Kitties
           THEN out.result = "KittyNotExists" /\ same /\ out.Kitties = Kitties
           ELSE IF Kitties[kitty_id].owner # sender
           THEN out.result = "NotOwner" /\ same /\ out.Kitties = Kitties
           ELSE /\ out.result = "Ok"
                /\ same
                /\ DOMAIN out.Kitties = DOMAIN Kitties
                /\ \A d \in DOMAIN Kitties : d # kitty_id => out.Kitties[d] = Kitties[d]
                /\ out.Kitties[kitty_id] =
                       [dna |-> Kitties[kitty_id].dna, price |-> new_price,
                        owner |-> Kitties[kitty_id].owner]

\* With two kitties of different owners in the registry, the owner of one
\* sets a price that differs from the current one, and the other account's
\* call on the same kitty is refused.
SetPriceWitness ==
    \E sender, other \in Accounts : \E kitty_id \in DOMAIN Kitties :
        /\ Kitties[kitty_id].owner = sender
        /\ \E d \in DOMAIN Kitties : Kitties[d].owner = other /\ other # sender
        /\ set_price_call(sender, kitty_id, KittyPrice + 1).result = "Ok"
        /\ Kitties[kitty_id].price # KittyPrice + 1
        /\ reserved[sender] > 0
        /\ set_price_call(other, kitty_id, KittyPrice + 1).result = "NotOwner"

\* C15: buy_kitty fails with KittyNotExists when the id is not in the
\* registry, with TransferToSelf when the buyer is the current owner, and
\* with ExceedMaxKittiesOwned when the buyer's list holds MaxKittiesOwned
\* kitties, the three cases taken in this order; every failing call leaves
\* the registry, the lists, the counter and all balances unchanged.
BuyFailures ==
    \A buyer \in Accounts : \A kitty_id \in KittyDNA : \A bid_price \in BidInputs :
        LET out == do_buy_kitty(kitty_id, buyer, bid_price)
        IN /\ kitty_id \notin DOMAIN Kitties => out.result = "KittyNotExists"
           /\ (kitty_id \in DOMAIN Kitties /\ Kitties[kitty_id].owner = buyer) =>
                  out.result = "TransferToSelf"
           /\ (kitty_id \in DOMAIN Kitties /\ Kitties[kitty_id].owner # buyer
                  /\ Len(KittiesOwned[buyer]) = MaxKittiesOwned) =>
                  out.result = "ExceedMaxKittiesOwned"
           /\ out.result # "Ok" =>
                  /\ out.Kitties = Kitties
                  /\ out.KittiesOwned = KittiesOwned
                  /\ out.KittiesCount = KittiesCount
                  /\ out.free = free
                  /\ out.reserved = reserved

\* A buyer with a full list is refused a kitty of the other account with
\* ExceedMaxKittiesOwned and one of its own kitties with TransferToSelf.
BuyFailuresWitness ==
    \E buyer \in Accounts : \E kitty_id, own_id \in DOMAIN Kitties :
        /\ Len(KittiesOwned[buyer]) = MaxKittiesOwned
        /\ Kitties[kitty_id].owner # buyer
        /\ Kitties[own_id].owner = buyer
        /\ do_buy_kitty(kitty_id, buyer, 0).result = "ExceedMaxKittiesOwned"
        /\ do_buy_kitty(own_id, buyer, 0).result = "TransferToSelf"

\* C16: the crossover is commutative in the order of the parents up to
\* complementing the selector: for all codes a, b and selectors s,
\* combine(a, b, s) = combine(b, a, NOT s).
CrossoverCommutes ==
    cross.dna # NoDna =>
        cross.dna = crossover(cross.kitty_2, cross.kitty_1,
                              [i \in 1 .. DnaLen |-> BitNot(cross.selector[i], CrossBits)],
                              CrossBits)

\* The loop has run on two different parents with a selector byte that
\* takes bits from both, and the child is neither parent.
CrossoverCommutesWitness ==
    /\ cross.dna # NoDna
    /\ cross.kitty_1 # cross.kitty_2
    /\ cross.dna # cross.kitty_1
    /\ cross.dna # cross.kitty_2
    /\ \E i \in 1 .. DnaLen : cross.selector[i] \notin {0, 2 ^ CrossBits - 1}

\* C17 as stated: every byte of the bred child's code equals the
\* corresponding byte of the first parent or of the second parent.
ChildByteIsParentByte ==
    cross.dna # NoDna =>
        \A i \in 1 .. DnaLen : cross.dna[i] \in {cross.kitty_1[i], cross.kitty_2[i]}

\* C17 amended: every bit of the child's code equals the corresponding bit of
\* the first parent where the selector's bit is 1 and of the second parent
\* where it is 0; a byte of the child equals the corresponding byte of the
\* first parent when the selector byte is all ones and of the second parent
\* when it is 0.
ChildBitIsParentBit ==
    LET Bit(x, k) == (x \div (2 ^ k)) % 2
    IN cross.dna # NoDna =>
          \A i \in 1 .. DnaLen :
              /\ \A k \in 0 .. (CrossBits - 1) :
                     Bit(cross.dna[i], k) = IF Bit(cross.selector[i], k) = 1
                                            THEN Bit(cross.kitty_1[i], k)
                                            ELSE Bit(cross.kitty_2[i], k)
              /\ cross.selector[i] = 2 ^ CrossBits - 1 => cross.dna[i] = cross.kitty_1[i]
              /\ cross.selector[i] = 0 => cross.dna[i] = cross.kitty_2[i]

\* The loop has produced a child with a byte that is the byte of neither
\* parent.
ChildBitIsParentBitWitness ==
    /\ cross.dna # NoDna
    /\ \E i \in 1 .. DnaLen : cross.dna[i] \notin {cross.kitty_1[i], cross.kitty_2[i]}

MintFailureIsNoOp ==
    /\ \A owner \in Accounts :
          LET out == create_kitty_call(owner)
          IN /\ create_kitty_check(owner, gen_random_value(owner)) = "Ok" => out.result = "Ok"
             /\ out.result # "Ok" =>
                    /\ out.Kitties = Kitties
                    /\ out.KittiesOwned = KittiesOwned
                    /\ out.KittiesCount = KittiesCount
                    /\ out.reserved = reserved
                    /\ out.free = free
    /\ \A owner \in Accounts : \A parent_1, parent_2 \in KittyDNA :
          LET out == breed_kitty_call(owner, parent_1, parent_2)
          IN /\ breed_kitty_check(owner, parent_1, parent_2) = "Ok" => out.result = "Ok"
             /\ out.result # "Ok" =>
                    /\ out.Kitties = Kitties
                    /\ out.KittiesOwned = KittiesOwned
                    /\ out.KittiesCount = KittiesCount
                    /\ out.reserved = reserved
                    /\ out.free = free

\* A caller with a full list is refused by the last test before the first
\* write, in create_kitty and in breed_kitty, and a caller that cannot
\* reserve the price is refused by create_kitty.
MintFailureWitness ==
    /\ \E owner \in Accounts :
          /\ create_kitty_call(owner).result = "ExceedMaxKittiesOwned"
          /\ \E parent_1, parent_2 \in DOMAIN Kitties :
                breed_kitty_call(owner, parent_1, parent_2).result = "ExceedMaxKittiesOwned"
    /\ \E owner \in Accounts : create_kitty_call(owner).result = "NotEnoughBalance"

\* C21: across every step, a record that is in the registry stays in the
\* registry with the same dna (only its owner and its price may change), and
\* the counter never decreases.
RegistryOnlyGrows ==
    [][/\ \A d \in DOMAIN Kitties :
             /\ d \in DOMAIN Kitties'
             /\ Kitties'[d].dna = Kitties[d].dna
       /\ KittiesCount' >= KittiesCount
      ]_vars

\* A full registry in which a kitty has been repriced and a kitty is held by
\* an account that reserved nothing for it: records have had their price and
\* their owner rewritten after they were minted.
RegistryOnlyGrowsWitness ==
    /\ KittiesCount = MaxKittiesCount
    /\ \E d \in DOMAIN Kitties : Kitties[d].price # KittyPrice
    /\ \E d \in DOMAIN Kitties : reserved[Kitties[d].owner] = 0

\* C22: when a successful transfer_kitty or buy_kitty removes the id from
\* position k of the previous owner's list, the resulting list is one
\* shorter, holds the former last element at position k and every other
\* remaining element at its original position, and the new owner's list is
\* its previous list with the id appended at the end.
SwapWithLast ==
    LET Shape(old, new, k) ==
            /\ Len(new) = Len(old) - 1
            /\ \A i \in 1 .. Len(new) :
                   new[i] = IF i = k THEN old[Len(old)] ELSE old[i]
    IN /\ \A from, to \in Accounts : \A dna \in KittyDNA :
             LET out == transfer_kitty_call(from, to, dna)
             IN out.result = "Ok" =>
                   /\ Shape(KittiesOwned[from], out.KittiesOwned[from],
                            position(KittiesOwned[from], dna))
                   /\ out.KittiesOwned[to] = KittiesOwned[to] \o <<dna>>
       /\ \A buyer \in Accounts : \A kitty_id \in KittyDNA : \A bid_price \in BidInputs :
             LET out == do_buy_kitty(kitty_id, buyer, bid_price)
             IN out.result = "Ok" =>
                   LET seller == Kitties[kitty_id].owner
                   IN /\ Shape(KittiesOwned[seller], out.KittiesOwned[seller],
                               position(KittiesOwned[seller], kitty_id))
                      /\ out.KittiesOwned[buyer] = KittiesOwned[buyer] \o <<kitty_id>>

\* The first of three kitties of a list is taken out by a successful
\* transfer_kitty, and in the same state by a successful buy_kitty, into a
\* list that is not empty.
SwapWithLastWitness ==
    \E from, to \in Accounts :
        /\ Len(KittiesOwned[from]) = 3
        /\ Len(KittiesOwned[to]) > 0
        /\ transfer_kitty_call(from, to, KittiesOwned[from][1]).result = "Ok"
        /\ do_buy_kitty(KittiesOwned[from][1], to, 0).result = "Ok"

\* C23: in every state reachable with create_kitty, breed_kitty and
\* transfer_kitty only, each account's reserved balance equals KittyPrice
\* times the number of kitties in its list, and every kitty's price equals
\* KittyPrice.
ReservedIsPriceTimesOwned ==
    /\ \A a \in Accounts : reserved[a] = KittyPrice * Len(KittiesOwned[a])
    /\ \A d \in DOMAIN Kitties : Kitties[d].price = KittyPrice

\* Account 1 holds three kitties and account 2, whose balance pays for one
\* kitty at a time, holds one: account 2 can neither mint another kitty nor
\* receive one by transfer_kitty.
ReservedIsPriceTimesOwnedWitness ==
    /\ Len(KittiesOwned[1]) = 3
    /\ Len(KittiesOwned[2]) = 1
    /\ reserved[2] = KittyPrice
    /\ create_kitty_call(2).result = "NotEnoughBalance"
    /\ \E d \in DOMAIN Kitties : transfer_kitty_call(1, 2, d).result = "NotEnoughBalance"

====
